---- MODULE Spec2Model ----
(***************************************************************************)
(* A model of the video-to-audio converter (rust/src): the interactive     *)
(* session of VideoConverter::run, the directory scan, the derivation of   *)
(* the output path, the engine subprocess with its two pipes and the       *)
(* drain task, and the ctrl-c task spawned by main.                        *)
(*                                                                         *)
(* Strings are sequences of one-character strings.  The filesystem, the    *)
(* user and the engine are the environment: what they answer is drawn      *)
(* from small sets where the code reads it.                                *)
(***************************************************************************)
EXTENDS Integers, Sequences, FiniteSets, TLC

(***************************************************************************)
(* Bounds of the model.                                                    *)
(***************************************************************************)
\* the longest directory listing that is scanned
MaxEntries == 3
\* how often a custom directory is rejected before the model stops asking
MaxAttempts == 2
\* how many lines or blocks the engine writes before it exits
MaxWrites == 2
\* how many lines or blocks a pipe holds before a write to it blocks
PipeCap == 1

(***************************************************************************)
(* Characters and strings.                                                 *)
(***************************************************************************)
\* the printable ASCII characters, from code 32 to code 126 (the double quote,
\* the backslash and the backtick are spelled out)
Printable ==
  <<" ", "!", "QUOTE", "#", "$", "%", "&", "'", "(", ")", "*", "+", ",", "-", ".", "/",
    "0", "1", "2", "3", "4", "5", "6", "7", "8", "9", ":", ";", "<", "=", ">", "?",
    "@", "A", "B", "C", "D", "E", "F", "G", "H", "I", "J", "K", "L", "M", "N", "O",
    "P", "Q", "R", "S", "T", "U", "V", "W", "X", "Y", "Z", "[", "BACKSLASH", "]", "^", "_",
    "BACKTICK", "a", "b", "c", "d", "e", "f", "g", "h", "i", "j", "k", "l", "m", "n", "o",
    "p", "q", "r", "s", "t", "u", "v", "w", "x", "y", "z", "{", "|", "}", "~">>

Code(c) == 31 + (CHOOSE i \in 1..Len(Printable) : Printable[i] = c)

Chr(n) == Printable[n - 31]

IsUpper(c) == Code(c) >= 65 /\ Code(c) <= 90

IsAlpha(c) == IsUpper(c) \/ (Code(c) >= 97 /\ Code(c) <= 122)

IsDigit(c) == Code(c) >= 48 /\ Code(c) <= 57

\* char::to_lowercase on ASCII
LowerChar(c) == IF IsUpper(c) THEN Chr(Code(c) + 32) ELSE c

\* str::to_lowercase
to_lowercase(s) == [i \in 1..Len(s) |-> LowerChar(s[i])]

\* Ord::cmp on two strings (byte-wise lexicographic): -1, 0 or 1
RECURSIVE StrCmp(_, _)
StrCmp(a, b) ==
  IF a = <<>> /\ b = <<>> THEN 0
  ELSE IF a = <<>> THEN -1
  ELSE IF b = <<>> THEN 1
  ELSE IF Code(Head(a)) < Code(Head(b)) THEN -1
  ELSE IF Code(Head(a)) > Code(Head(b)) THEN 1
  ELSE StrCmp(Tail(a), Tail(b))

\* str::contains
Contains(s, pat) ==
  \E i \in 0..(Len(s) - Len(pat)) : SubSeq(s, i + 1, i + Len(pat)) = pat

\* the positions of character c in s
Positions(s, c) == {i \in 1..Len(s) : s[i] = c}

Max(S) == CHOOSE x \in S : \A y \in S : y <= x

Min(S) == CHOOSE x \in S : \A y \in S : x <= y

\* Option<T>
None == [some |-> FALSE, val |-> <<>>]

Some(x) == [some |-> TRUE, val |-> x]

unwrap_or(opt, dflt) == IF opt.some THEN opt.val ELSE dflt

StrOutput == <<"o", "u", "t", "p", "u", "t">>

StrDotMp3 == <<".", "m", "p", "3">>

StrSlash == <<"/">>

StrDot == <<".">>

StrDotDot == <<".", ".">>

(***************************************************************************)
(* std::path::Path on Unix.                                                *)
(***************************************************************************)
\* s split at every c
RECURSIVE Split(_, _)
Split(s, c) ==
  IF Positions(s, c) = {} THEN <<s>>
  ELSE <<SubSeq(s, 1, Min(Positions(s, c)) - 1)>>
         \o Split(SubSeq(s, Min(Positions(s, c)) + 1, Len(s)), c)

has_root(p) == p # <<>> /\ p[1] = "/"

\* Path::components without the root: empty pieces are dropped, and "." is kept
\* only as the first component of a relative path
Components(p) ==
  LET segs == Split(p, "/")
      keep(i) == /\ segs[i] # <<>>
                 /\ (segs[i] = StrDot => (i = 1 /\ ~has_root(p)))
  IN  SelectSeq([i \in 1..Len(segs) |-> [seg |-> segs[i], k |-> keep(i)]],
                LAMBDA r : r.k)

\* Path::file_name: the last component when it is a normal one
file_name(p) ==
  LET cs == Components(p)
  IN  IF cs = <<>> THEN None
      ELSE LET last == cs[Len(cs)].seg
           IN  IF last = StrDotDot \/ last = StrDot THEN None ELSE Some(last)

\* rsplit_file_at_dot: <<before, after>> of the last "."
rsplit_file_at_dot(name) ==
  IF name = StrDotDot THEN <<Some(name), None>>
  ELSE IF Positions(name, ".") = {} THEN <<None, Some(name)>>
  ELSE LET i == Max(Positions(name, "."))
       IN  IF i = 1 THEN <<Some(name), None>>
           ELSE <<Some(SubSeq(name, 1, i - 1)), Some(SubSeq(name, i + 1, Len(name)))>>

\* Path::file_stem
file_stem(p) ==
  LET fname == file_name(p)
  IN  IF ~fname.some THEN None
      ELSE LET ba == rsplit_file_at_dot(fname.val)
           IN  IF ba[1].some THEN ba[1] ELSE ba[2]

\* Path::extension
extension(p) ==
  LET fname == file_name(p)
  IN  IF ~fname.some THEN None
      ELSE LET ba == rsplit_file_at_dot(fname.val)
           IN  IF ba[1].some THEN ba[2] ELSE None

\* Components::trim_right: trailing separators and trailing "." components
\* are no part of the last component; a lone root stays
RECURSIVE TrimRight(_)
TrimRight(s) ==
  IF Len(s) <= 1 THEN s
  ELSE IF s[Len(s)] = "/" THEN TrimRight(SubSeq(s, 1, Len(s) - 1))
  ELSE IF s[Len(s)] = "." /\ s[Len(s) - 1] = "/" THEN TrimRight(SubSeq(s, 1, Len(s) - 1))
  ELSE s

\* Path::parent: the text of the path before its last component; None when the
\* path has no component besides the root ("/" and "")
parent(p) ==
  LET cs == Components(p)
  IN  IF cs = <<>> THEN None
      ELSE LET t == TrimRight(p)
               n == Len(cs[Len(cs)].seg)
           IN  Some(TrimRight(SubSeq(t, 1, Len(t) - n)))

\* Path::is_absolute
is_absolute(p) == has_root(p)

\* Path::join (PathBuf::push): an absolute argument replaces the base
join(base, p) ==
  IF is_absolute(p) THEN p
  ELSE IF base = <<>> THEN p
  ELSE IF base[Len(base)] = "/" THEN base \o p
  ELSE base \o StrSlash \o p

(***************************************************************************)
(* url::Url::parse, the parser of the url crate, on printable ASCII text.  *)
(* A host is followed through percent-decoding, the ASCII deny list of     *)
(* IDNA processing, the Punycode decoder and the IPv4 and IPv6 parsers.    *)
(* The program is built with idna_adapter 1.0.0, which has no Unicode      *)
(* tables: a percent-escape of a byte above 127 in a host is an error, and *)
(* the characters that an "xn--" label decodes to are not validated.       *)
(***************************************************************************)
Bsl == "BACKSLASH"

StrTake(s, n) == SubSeq(s, 1, n)

StrDrop(s, n) == SubSeq(s, n + 1, Len(s))

EndsWithSlash(s) == s # <<>> /\ s[Len(s)] = "/"

\* the prefix of s before the first character of set stop
UpTo(s, stop) ==
  LET hits == {i \in 1..Len(s) : s[i] \in stop}
  IN  IF hits = {} THEN s ELSE SubSeq(s, 1, Min(hits) - 1)

\* char::to_digit(16), -1 for None
HexVal(c) ==
  IF IsDigit(c) THEN Code(c) - 48
  ELSE IF Code(LowerChar(c)) >= 97 /\ Code(LowerChar(c)) <= 102 THEN Code(LowerChar(c)) - 87
  ELSE -1

HexDigits == <<"0", "1", "2", "3", "4", "5", "6", "7", "8", "9", "A", "B", "C", "D", "E", "F">>

\* c0_control_or_space
c0_control_or_space(c) == Code(c) <= 32

\* Input::new: str::trim_matches(c0_control_or_space)
RECURSIVE TrimInput(_)
TrimInput(s) ==
  IF s = <<>> THEN s
  ELSE IF c0_control_or_space(s[1]) THEN TrimInput(Tail(s))
  ELSE IF c0_control_or_space(s[Len(s)]) THEN TrimInput(StrTake(s, Len(s) - 1))
  ELSE s

IsSchemeChar(c) == IsAlpha(c) \/ IsDigit(c) \/ c \in {"+", "-", "."}

StrHttp == <<"h", "t", "t", "p">>

StrHttps == <<"h", "t", "t", "p", "s">>

\* Parser::parse_scheme: the lowercased scheme and the input behind its ":"
parse_scheme(s) ==
  IF s = <<>> \/ ~IsAlpha(s[1]) THEN None
  ELSE IF \A i \in 1..Len(s) : IsSchemeChar(s[i]) THEN None
  ELSE LET i == Min({n \in 1..Len(s) : ~IsSchemeChar(s[n])})
       IN  IF s[i] = ":"
           THEN Some([scheme |-> to_lowercase(StrTake(s, i - 1)), rest |-> StrDrop(s, i)])
           ELSE None

\* SchemeType::from
SchemeTypeOf(scheme) ==
  IF scheme \in {StrHttp, StrHttps, <<"f", "t", "p">>, <<"w", "s">>, <<"w", "s", "s">>}
  THEN "SpecialNotFile"
  ELSE IF scheme = <<"f", "i", "l", "e">> THEN "File"
  ELSE "NotSpecial"

\* SchemeType::is_special
is_special(type) == type # "NotSpecial"

\* Input::count_matching(|c| matches!(c, '/' | '\\')): the input behind them
RECURSIVE SkipSlashes(_)
SkipSlashes(s) ==
  IF s # <<>> /\ s[1] \in {"/", Bsl} THEN SkipSlashes(Tail(s)) ELSE s

\* the characters that end the authority, and a segment of the path
Stops(type) == {"/", "?", "#"} \cup (IF is_special(type) THEN {Bsl} ELSE {})

\* Parser::parse_userinfo: whether it succeeds, whether a user name or a
\* password was written, and the input behind the last "@" of the authority
parse_userinfo(input, type) ==
  LET ats == Positions(UpTo(input, Stops(type)), "@")
      last_at == Max(ats)
  IN  IF ats = {} THEN [ok |-> TRUE, has_authority |-> FALSE, rest |-> input]
      ELSE IF last_at = 1
      THEN IF Len(input) >= 2 /\ input[2] \in Stops(type)
           THEN [ok |-> FALSE, has_authority |-> FALSE, rest |-> <<>>]
           ELSE [ok |-> TRUE, has_authority |-> FALSE, rest |-> StrDrop(input, 1)]
      ELSE [ok |-> TRUE,
            has_authority |-> StrTake(input, last_at - 1) # <<":">>,
            rest |-> StrDrop(input, last_at)]

\* Parser::parse_host: the length of the host text (a ":" ends it outside
\* square brackets only)
RECURSIVE HostLen(_, _, _)
HostLen(s, type, inside_square_brackets) ==
  IF s = <<>> THEN 0
  ELSE IF \/ (s[1] = ":" /\ ~inside_square_brackets)
          \/ (s[1] = Bsl /\ is_special(type))
          \/ s[1] \in {"/", "?", "#"}
       THEN 0
       ELSE 1 + HostLen(Tail(s), type,
                        IF s[1] = "[" THEN TRUE
                        ELSE IF s[1] = "]" THEN FALSE
                        ELSE inside_square_brackets)

\* how many characters of s from position i + 1 on are digits of radix r, at
\* most `most'
RECURSIVE Run(_, _, _, _)
Run(s, i, most, r) ==
  IF most = 0 \/ i >= Len(s) \/ HexVal(s[i + 1]) < 0 \/ HexVal(s[i + 1]) >= r THEN 0
  ELSE 1 + Run(s, i + 1, most - 1, r)

\* the value of a string of decimal digits
RECURSIVE DecVal(_)
DecVal(digits) ==
  IF digits = <<>> THEN 0
  ELSE 10 * DecVal(StrTake(digits, Len(digits) - 1)) + HexVal(digits[Len(digits)])

\* parse_ipv6addr, at its end: without a "::" all eight pieces are needed
Ipv6End(piece_pointer, compress) == compress \/ piece_pointer = 8

\* parse_ipv6addr, the dotted decimal tail: four numbers below 256 without a
\* leading zero, "." between them
RECURSIVE Ipv6V4(_, _, _, _, _)
Ipv6V4(s, i, piece_pointer, compress, numbers_seen) ==
  IF i >= Len(s) THEN numbers_seen = 4 /\ Ipv6End(piece_pointer, compress)
  ELSE IF numbers_seen > 0 /\ ~(numbers_seen < 4 /\ s[i + 1] = ".") THEN FALSE
  ELSE LET k == IF numbers_seen > 0 THEN i + 1 ELSE i
           n == Run(s, k, Len(s), 10)
       IN  /\ n >= 1
           /\ n <= 3
           /\ ~(n > 1 /\ s[k + 1] = "0")
           /\ DecVal(SubSeq(s, k + 1, k + n)) <= 255
           /\ Ipv6V4(s, k + n,
                     IF numbers_seen + 1 \in {2, 4} THEN piece_pointer + 1 ELSE piece_pointer,
                     compress, numbers_seen + 1)

\* parse_ipv6addr, the loop over the pieces: i characters are consumed
RECURSIVE Ipv6Loop(_, _, _, _)
Ipv6Loop(s, i, piece_pointer, compress) ==
  IF i >= Len(s) THEN Ipv6End(piece_pointer, compress)
  ELSE IF piece_pointer = 8 THEN FALSE
  ELSE IF s[i + 1] = ":"
       THEN IF compress THEN FALSE ELSE Ipv6Loop(s, i + 1, piece_pointer + 1, TRUE)
  ELSE LET j == i + Run(s, i, 4, 16)
       IN  IF j < Len(s)
           THEN IF s[j + 1] = "."
                THEN IF j = i \/ piece_pointer > 6 THEN FALSE
                     ELSE Ipv6V4(s, i, piece_pointer, compress, 0)
                ELSE IF s[j + 1] = ":"
                THEN IF j + 1 = Len(s) THEN FALSE
                     ELSE Ipv6Loop(s, j + 1, piece_pointer + 1, compress)
                ELSE FALSE
           ELSE Ipv6Loop(s, j, piece_pointer + 1, compress)

\* parse_ipv6addr(..).is_ok()
parse_ipv6addr(s) ==
  IF Len(s) < 2 THEN FALSE
  ELSE IF s[1] = ":"
       THEN IF s[2] # ":" THEN FALSE ELSE Ipv6Loop(s, 2, 1, TRUE)
  ELSE Ipv6Loop(s, 0, 0, FALSE)

\* u32::from_str_radix on valid digits: the number as <<high, low>> halves of
\* 16 bits each; a high half of 65536 stands for an overflow of u32
RECURSIVE from_str_radix(_, _, _, _)
from_str_radix(digits, r, high, low) ==
  IF digits = <<>> THEN <<IF high > 65535 THEN 65536 ELSE high, low>>
  ELSE from_str_radix(Tail(digits), r,
                      IF high > 65535 THEN 65536 ELSE high * r + ((low * r + HexVal(digits[1])) \div 65536),
                      (low * r + HexVal(digits[1])) % 65536)

\* parse_ipv4number, behind the prefix of the radix
Ipv4Digits(digits, r) ==
  IF digits = <<>> THEN [valid |-> TRUE, num |-> <<0, 0>>]
  ELSE IF \E n \in 1..Len(digits) : HexVal(digits[n]) < 0 \/ HexVal(digits[n]) >= r
  THEN [valid |-> FALSE, num |-> <<0, 0>>]
  ELSE [valid |-> TRUE, num |-> from_str_radix(digits, r, 0, 0)]

\* parse_ipv4number: Err(()) is valid = FALSE, Ok(None) a number whose high
\* half is 65536
parse_ipv4number(input) ==
  IF input = <<>> THEN [valid |-> FALSE, num |-> <<0, 0>>]
  ELSE IF Len(input) >= 2 /\ input[1] = "0" /\ input[2] \in {"x", "X"}
  THEN Ipv4Digits(StrDrop(input, 2), 16)
  ELSE IF Len(input) >= 2 /\ input[1] = "0" THEN Ipv4Digits(StrDrop(input, 1), 8)
  ELSE Ipv4Digits(input, 10)

\* ends_in_a_number, on the last part of the domain that is not empty
LastIsNumber(last) ==
  \/ last # <<>> /\ \A m \in 1..Len(last) : IsDigit(last[m])
  \/ parse_ipv4number(last).valid

\* ends_in_a_number
ends_in_a_number(domain) ==
  LET parts == Split(domain, ".")
  IN  IF parts[Len(parts)] # <<>> THEN LastIsNumber(parts[Len(parts)])
      ELSE Len(parts) > 1 /\ LastIsNumber(parts[Len(parts) - 1])

\* parse_ipv4addr, on the numbers of the parts: the last one fills the bytes
\* the others leave, the others are bytes
Ipv4NumbersOk(numbers) ==
  /\ \A n \in 1..Len(numbers) : numbers[n].valid /\ numbers[n].num[1] < 65536
  /\ CASE Len(numbers) = 1 -> TRUE
       [] Len(numbers) = 2 -> numbers[2].num[1] < 256
       [] Len(numbers) = 3 -> numbers[3].num[1] = 0
       [] Len(numbers) = 4 -> numbers[4].num[1] = 0 /\ numbers[4].num[2] < 256
  /\ \A n \in 1..(Len(numbers) - 1) : numbers[n].num[1] = 0 /\ numbers[n].num[2] <= 255

\* parse_ipv4addr(..).is_ok()
parse_ipv4addr(domain) ==
  LET all == Split(domain, ".")
      parts == IF all[Len(all)] = <<>> THEN StrTake(all, Len(all) - 1) ELSE all
  IN  /\ Len(parts) >= 1
      /\ Len(parts) <= 4
      /\ Ipv4NumbersOk([n \in 1..Len(parts) |-> parse_ipv4number(parts[n])])

\* percent_decode: the bytes of the text, every "%" with two hex digits
\* behind it replaced by the byte they spell
RECURSIVE percent_decode(_)
percent_decode(s) ==
  IF s = <<>> THEN <<>>
  ELSE IF s[1] = "%" /\ Len(s) >= 3 /\ HexVal(s[2]) >= 0 /\ HexVal(s[3]) >= 0
       THEN <<16 * HexVal(s[2]) + HexVal(s[3])>> \o percent_decode(StrDrop(s, 3))
       ELSE <<Code(s[1])>> \o percent_decode(Tail(s))

\* the forbidden domain code points among the printable characters
\* (idna::AsciiDenyList::URL)
DeniedInDomain ==
  {" ", "#", "%", "/", ":", "<", ">", "?", "@", "[", Bsl, "]", "^", "|"}

HostErr == [kind |-> "Err", domain |-> <<>>]

\* Host::parse, on the domain that idna::domain_to_ascii_from_cow returns
DomainHost(domain) ==
  IF domain = <<>> THEN HostErr
  ELSE IF ends_in_a_number(domain)
  THEN IF parse_ipv4addr(domain) THEN [kind |-> "Ipv4", domain |-> <<>>] ELSE HostErr
  ELSE [kind |-> "Domain", domain |-> domain]

\* idna::punycode::Decoder::decode on the text behind the last "-" of a
\* label: whether every delta decodes to a character.  s is the decoder
\* between two digits (weight 0: between two deltas).  The sums are u32 in
\* the code; a sum past the largest code point ends in an error whatever
\* follows, so the error is answered at once (a label holds fewer than 100
\* characters here)
RECURSIVE punycode_decode(_, _)
punycode_decode(input, s) ==
  IF input = <<>> THEN s.weight = 0
  ELSE LET weight == IF s.weight = 0 THEN 1 ELSE s.weight
           k == IF s.weight = 0 THEN 36 ELSE s.k
           previous_i == IF s.weight = 0 THEN s.i ELSE s.previous_i
           most == 1114111 * (s.length + 1)
           digit == IF IsDigit(input[1]) THEN Code(input[1]) - 22
                    ELSE IF IsUpper(input[1]) THEN Code(input[1]) - 65
                    ELSE IF IsAlpha(input[1]) THEN Code(input[1]) - 97
                    ELSE -1
           t == IF k <= s.bias THEN 1 ELSE IF k >= s.bias + 26 THEN 26 ELSE k - s.bias
           adapt(delta, num_points) ==
             LET damped == delta \div (IF previous_i = 0 THEN 700 ELSE 2)
                 d == damped + damped \div num_points
                 n == CHOOSE j \in 0..6 :
                        /\ d \div (35 ^ j) <= 455
                        /\ j > 0 => d \div (35 ^ (j - 1)) > 455
             IN  36 * n + (36 * (d \div (35 ^ n))) \div ((d \div (35 ^ n)) + 38)
       IN  IF digit < 0 THEN FALSE
           ELSE IF digit > 0 /\ weight > (most - s.i) \div digit THEN FALSE
           ELSE IF digit < t
           THEN LET i == s.i + digit * weight
                    code_point == s.code_point + i \div (s.length + 1)
                IN  /\ code_point <= 1114111
                    /\ ~(code_point >= 55296 /\ code_point <= 57343)
                    /\ punycode_decode(Tail(input),
                         [i |-> (i % (s.length + 1)) + 1, previous_i |-> 0, weight |-> 0,
                          k |-> 36, bias |-> adapt(i - previous_i, s.length + 1),
                          length |-> s.length + 1, code_point |-> code_point])
           ELSE punycode_decode(Tail(input),
                  [s EXCEPT !.i = s.i + digit * weight, !.previous_i = previous_i,
                            !.weight = IF weight > most \div (36 - t) THEN most + 1
                                       ELSE weight * (36 - t),
                            !.k = k + 36])

\* idna::uts46::Uts46::process on an ASCII label: a label with the "xn--"
\* prefix is Punycode.  Its basic characters stand before the last "-" (not
\* the first character), in either case; the text behind decodes, to one
\* character at least.  The idna_adapter of the build (1.0.0) has no Unicode
\* data, and a decoded character is taken as it is
LabelOk(label) ==
  LET tail == StrDrop(label, 4)
      dashes == {n \in 1..Len(tail) : tail[n] = "-"}
      position == IF dashes = {} THEN 0 ELSE CHOOSE n \in dashes : \A m \in dashes : m <= n
      input == IF position > 1 THEN StrDrop(tail, position) ELSE tail
  IN  (Len(label) >= 4 /\ to_lowercase(StrTake(label, 4)) = <<"x", "n", "-", "-">>) =>
        /\ input # <<>>
        /\ punycode_decode(input, [i |-> 0, previous_i |-> 0, weight |-> 0, k |-> 36,
                                   bias |-> 72, length |-> (IF position > 1 THEN position - 1 ELSE 0),
                                   code_point |-> 128])

\* idna::domain_to_ascii_from_cow(.., AsciiDenyList::URL): a byte above 127
\* is an error in this build (no Unicode data), a denied character is an
\* error, every label is checked, letters are lowercased
DomainToAscii(bytes) ==
  IF \E n \in 1..Len(bytes) : bytes[n] < 32 \/ bytes[n] >= 127 THEN HostErr
  ELSE IF \E n \in 1..Len(bytes) : Chr(bytes[n]) \in DeniedInDomain THEN HostErr
  ELSE IF LET labels == Split([n \in 1..Len(bytes) |-> Chr(bytes[n])], ".")
          IN  \E n \in 1..Len(labels) : ~LabelOk(labels[n])
  THEN HostErr
  ELSE DomainHost(to_lowercase([n \in 1..Len(bytes) |-> Chr(bytes[n])]))

\* "[..]" around an IPv6 address
Ipv6Host(host_str) ==
  IF host_str[Len(host_str)] = "]" /\ parse_ipv6addr(SubSeq(host_str, 2, Len(host_str) - 1))
  THEN [kind |-> "Ipv6", domain |-> <<>>]
  ELSE HostErr

\* Host::parse (special schemes): the kind of host ("Err", "Ipv6", "Ipv4" or
\* "Domain") and the domain name
HostParse(host_str) ==
  IF host_str # <<>> /\ host_str[1] = "[" THEN Ipv6Host(host_str)
  ELSE DomainToAscii(percent_decode(host_str))

\* Host::parse_opaque (other schemes): the kind of host, and the host text of
\* a domain (empty for HostInternal::None)
HostParseOpaque(host_str) ==
  IF host_str # <<>> /\ host_str[1] = "[" THEN Ipv6Host(host_str)
  ELSE IF \E n \in 1..Len(host_str) :
            host_str[n] \in {" ", "#", "/", ":", "<", ">", "?", "@", "[", Bsl, "]", "^", "|"}
       THEN HostErr
  ELSE [kind |-> "Domain", domain |-> host_str]

\* Parser::parse_port: the input behind the port, or an error; the port (the
\* digits behind the leading zeros) is no more than u16::MAX, and a "/", "\",
\* "?", "#" or the end of the input follows it
parse_port(input) ==
  LET n == Run(input, 0, Len(input), 10)
      significant == SubSeq(input, Run(input, 0, n, 1) + 1, n)
      remaining == StrDrop(input, n)
  IN  IF /\ Len(significant) <= 5
         /\ Len(significant) = 5 => DecVal(significant) <= 65535
         /\ remaining = <<>> \/ remaining[1] \in {"/", Bsl, "?", "#"}
      THEN [ok |-> TRUE, rest |-> remaining]
      ELSE [ok |-> FALSE, rest |-> <<>>]

HostAndPortErr == [ok |-> FALSE, no_host |-> FALSE, rest |-> <<>>]

\* Parser::parse_host_and_port, behind Parser::parse_host
HostThenPort(type, host, remaining) ==
  IF host.kind = "Err" THEN HostAndPortErr
  ELSE IF /\ host.kind = "Domain" /\ host.domain = <<>>
          /\ (is_special(type) \/ (remaining # <<>> /\ remaining[1] = ":"))
  THEN HostAndPortErr
  ELSE IF remaining # <<>> /\ remaining[1] = ":"
  THEN IF parse_port(Tail(remaining)).ok
       THEN [ok |-> TRUE, no_host |-> host.kind = "Domain" /\ host.domain = <<>>,
             rest |-> parse_port(Tail(remaining)).rest]
       ELSE HostAndPortErr
  ELSE [ok |-> TRUE, no_host |-> host.kind = "Domain" /\ host.domain = <<>>,
        rest |-> remaining]

\* Parser::parse_host_and_port with Parser::parse_host: whether there is a
\* host and the input behind the authority, or an error
parse_host_and_port(input, type) ==
  LET n == HostLen(input, type, FALSE)
  IN  IF type = "SpecialNotFile" /\ n = 0 THEN HostAndPortErr
      ELSE HostThenPort(type,
                        IF is_special(type) THEN HostParse(StrTake(input, n))
                        ELSE HostParseOpaque(StrTake(input, n)),
                        StrDrop(input, n))

\* the PATH set of percent-encoding, among the printable characters
PATH == {" ", "QUOTE", "<", ">", "BACKTICK", "#", "?", "{", "}"}

\* utf8_percent_encode(.., PATH)
RECURSIVE percent_encode(_)
percent_encode(s) ==
  IF s = <<>> THEN <<>>
  ELSE (IF s[1] \in PATH
        THEN <<"%", HexDigits[(Code(s[1]) \div 16) + 1], HexDigits[(Code(s[1]) % 16) + 1]>>
        ELSE <<s[1]>>) \o percent_encode(Tail(s))

\* starts_with_windows_drive_letter
starts_with_windows_drive_letter(s) ==
  /\ Len(s) >= 2
  /\ IsAlpha(s[1])
  /\ s[2] \in {":", "|"}
  /\ (Len(s) = 2 \/ s[3] \in {"/", Bsl, "?", "#"})

\* is_windows_drive_letter
is_windows_drive_letter(segment) ==
  Len(segment) = 2 /\ starts_with_windows_drive_letter(segment)

\* is_normalized_windows_drive_letter
is_normalized_windows_drive_letter(segment) ==
  is_windows_drive_letter(segment) /\ segment[2] = ":"

\* path_starts_with_windows_drive_letter
path_starts_with_windows_drive_letter(s) ==
  s # <<>> /\ s[1] \in {"/", Bsl, "?", "#"} /\ starts_with_windows_drive_letter(Tail(s))

\* Parser::last_slash_can_be_removed, on the path written so far: the slash
\* at its end is neither the root nor the one behind a drive letter
last_slash_can_be_removed(ser) ==
  /\ Positions(StrTake(ser, Len(ser) - 1), "/") # {}
  /\ ~path_starts_with_windows_drive_letter(
        StrDrop(ser, Max(Positions(StrTake(ser, Len(ser) - 1), "/")) - 1))

\* Parser::pop_path
pop_path(type, ser) ==
  IF Positions(ser, "/") = {} THEN ser
  ELSE IF type = "File" /\ is_normalized_windows_drive_letter(StrDrop(ser, Max(Positions(ser, "/"))))
  THEN ser
  ELSE StrTake(ser, Max(Positions(ser, "/")))

\* Parser::shorten_path
shorten_path(type, ser) ==
  IF ser = <<>> THEN ser
  ELSE IF type = "File" /\ is_normalized_windows_drive_letter(ser) THEN ser
  ELSE pop_path(type, ser)

DoubleDotSegments ==
  {<<".", ".">>, <<"%", "2", "e", "%", "2", "e">>, <<"%", "2", "e", ".">>, <<".", "%", "2", "e">>}

SingleDotSegments == {<<".">>, <<"%", "2", "e">>}

\* a "/" behind the path when one was read and none is there
WithSlash(ser, ends_with_slash) ==
  IF ends_with_slash /\ ~EndsWithSlash(ser) THEN ser \o StrSlash ELSE ser

\* Parser::parse_path, a ".." segment: the last segment of the path goes
DoubleDot(type, ser, ends_with_slash) ==
  WithSlash(shorten_path(type, IF EndsWithSlash(ser) /\ last_slash_can_be_removed(ser)
                               THEN StrTake(ser, Len(ser) - 1)
                               ELSE ser),
            ends_with_slash)

\* Parser::parse_path, one segment: the path with the segment written (ser is
\* the path before it, ends_with_slash tells that a separator follows it)
WriteSegment(type, ser, segment, ends_with_slash) ==
  IF to_lowercase(segment) \in DoubleDotSegments THEN DoubleDot(type, ser, ends_with_slash)
  ELSE IF to_lowercase(segment) \in SingleDotSegments THEN WithSlash(ser, TRUE)
  ELSE IF type = "File" /\ Len(ser) = 1 /\ is_windows_drive_letter(segment)
  THEN ser \o <<segment[1], ":">> \o (IF ends_with_slash THEN StrSlash ELSE <<>>)
  ELSE ser \o segment \o (IF ends_with_slash THEN StrSlash ELSE <<>>)

\* Parser::parse_path: the path of the URL, from the part of it that is
\* written already (ser) and the input that follows; one segment per step,
\* the segment being the first n characters of the input.  At the end the
\* path of a file URL starts with one "/"
RECURSIVE parse_path(_, _, _)
PathSegment(type, ser, input, n, ends_with_slash) ==
  LET written == WriteSegment(type, ser, percent_encode(StrTake(input, n)), ends_with_slash)
  IN  IF ends_with_slash THEN parse_path(type, written, StrDrop(input, n + 1))
      ELSE IF type = "File"
      THEN StrSlash \o StrDrop(written, Min({m \in 0..Len(written) :
                                               m = Len(written) \/ written[m + 1] # "/"}))
      ELSE written

parse_path(type, ser, input) ==
  LET n == Len(UpTo(input, Stops(type)))
  IN  PathSegment(type, ser, input, n, n < Len(input) /\ input[n + 1] \notin {"?", "#"})

\* Parser::parse_path_start: a special URL has a path that starts with "/",
\* and one separator of the input is taken for it
parse_path_start(type, input) ==
  IF ~is_special(type) /\ input # <<>> /\ input[1] \in {"?", "#"} THEN <<>>
  ELSE parse_path(type,
                  IF ~is_special(type) /\ (input = <<>> \/ input[1] = "/") THEN <<>>
                  ELSE StrSlash,
                  IF is_special(type) /\ input # <<>> /\ input[1] \in {"/", Bsl}
                  THEN Tail(input)
                  ELSE input)

ParseErr == [ok |-> FALSE, path |-> <<>>]

\* Parser::after_double_slash, behind the authority: the path
AfterHost(type, has_authority, host) ==
  IF ~host.ok THEN ParseErr
  ELSE IF host.no_host /\ has_authority THEN ParseErr
  ELSE [ok |-> TRUE, path |-> parse_path_start(type, host.rest)]

\* Parser::after_double_slash: the authority, then the path
after_double_slash(input, type) ==
  LET userinfo == parse_userinfo(input, type)
  IN  IF ~userinfo.ok THEN ParseErr
      ELSE AfterHost(type, userinfo.has_authority, parse_host_and_port(userinfo.rest, type))

\* Parser::file_host: the host text, empty for a drive letter, and the input
\* behind it
file_host(input) ==
  LET text == UpTo(input, {"/", Bsl, "?", "#"})
  IN  IF is_windows_drive_letter(text) THEN [host_str |-> <<>>, rest |-> input]
      ELSE [host_str |-> text, rest |-> StrDrop(input, Len(text))]

\* Parser::parse_file, behind Parser::parse_file_host: the path is written
\* behind the host, or behind "/" when no host is kept (none, or localhost)
FilePath(host, remaining) ==
  IF host.kind = "Err" THEN ParseErr
  ELSE IF host.kind \in {"Ipv4", "Ipv6"}
          \/ (host.kind = "Domain" /\ host.domain # <<"l", "o", "c", "a", "l", "h", "o", "s", "t">>)
  THEN [ok |-> TRUE, path |-> parse_path_start("File", remaining)]
  ELSE [ok |-> TRUE, path |-> parse_path("File", StrSlash, remaining)]

\* Parser::parse_file without a base URL (Parser::parse_file_host: no host
\* text is no host)
parse_file(input) ==
  IF Len(input) >= 2 /\ input[1] \in {"/", Bsl} /\ input[2] \in {"/", Bsl}
  THEN LET fh == file_host(StrDrop(input, 2))
       IN  FilePath(IF fh.host_str = <<>> THEN [kind |-> "None", domain |-> <<>>]
                    ELSE HostParse(fh.host_str),
                    fh.rest)
  ELSE [ok |-> TRUE,
        path |-> parse_path("File",
                            IF input # <<>> /\ input[1] \in {"/", Bsl} THEN <<>> ELSE StrSlash,
                            input)]

\* Parser::parse_non_special: an authority behind "//", a path behind "/", an
\* opaque path otherwise (parse_cannot_be_a_base_path)
parse_non_special(input) ==
  IF Len(input) >= 2 /\ input[1] = "/" /\ input[2] = "/"
  THEN after_double_slash(StrDrop(input, 2), "NotSpecial")
  ELSE IF input # <<>> /\ input[1] = "/"
  THEN [ok |-> TRUE, path |-> parse_path("NotSpecial", StrSlash, Tail(input))]
  ELSE [ok |-> TRUE, path |-> UpTo(input, {"?", "#"})]

UrlErr == [ok |-> FALSE, scheme |-> <<>>, path |-> <<>>]

\* the Url that Parser::parse_with_scheme returns: Url::scheme and Url::path
UrlOf(scheme, url) ==
  IF url.ok THEN [ok |-> TRUE, scheme |-> scheme, path |-> url.path] ELSE UrlErr

\* Parser::parse_with_scheme
parse_with_scheme(scheme, type, remaining) ==
  UrlOf(scheme,
        CASE type = "File" -> parse_file(remaining)
          [] type = "SpecialNotFile" -> after_double_slash(SkipSlashes(remaining), type)
          [] type = "NotSpecial" -> parse_non_special(remaining))

\* Url::parse with Url::scheme and Url::path: the scheme (lowercased) and the
\* path of the URL, or an error (Parser::parse_url)
UrlParse(input) ==
  LET parsed == parse_scheme(TrimInput(input))
  IN  IF ~parsed.some THEN UrlErr
      ELSE parse_with_scheme(parsed.val.scheme, SchemeTypeOf(parsed.val.scheme),
                             parsed.val.rest)

\* VideoConverter::is_url
\* matches!(url.scheme(), "http" | "https") on an Ok(url)
IsHttp(url) == url.ok /\ url.scheme \in {StrHttp, StrHttps}

is_url(input) == IsHttp(UrlParse(input))

\* a stem without the fallback
StemNoDefault(p) == unwrap_or(file_stem(p), <<>>)

\* the fallback stem of get_output_path
StemOrDefault(p) == unwrap_or(file_stem(p), StrOutput)

\* VideoConverter::get_output_path
get_output_path(input_path) ==
  IF is_url(input_path)
  THEN StemOrDefault(UrlParse(input_path).path) \o StrDotMp3
  ELSE LET filename == StemOrDefault(input_path)
           par == parent(input_path)
       IN  IF par.some THEN join(par.val, filename \o StrDotMp3)
           ELSE filename \o StrDotMp3

(***************************************************************************)
(* video_file.rs and the directory scan.                                   *)
(***************************************************************************)
\* SUPPORTED_EXTENSIONS
SUPPORTED_EXTENSIONS ==
  {<<"m", "p", "4">>, <<"a", "v", "i">>, <<"m", "o", "v">>, <<"m", "k", "v">>, <<"f", "l", "v">>, <<"w", "m", "v">>, <<"w", "e", "b", "m">>, <<"m", "4", "v">>, <<"3", "g", "p">>}

\* VideoFile::new on a path whose metadata can be read (the size is left out:
\* nothing but the display text reads it)
VideoFileNew(directory, name) ==
  [name |-> unwrap_or(file_name(name), <<"u", "n", "k", "n", "o", "w", "n">>),
   path |-> join(directory, name),
   extension |-> to_lowercase(unwrap_or(extension(name), <<>>))]

\* VideoFile::is_supported_video
is_supported_video(vf) == vf.extension \in SUPPORTED_EXTENSIONS

\* a comparison that does not fold the case
name_cmp_cased(a, b) == StrCmp(a.name, b.name)

\* the comparison handed to sort_by
name_cmp(a, b) == StrCmp(to_lowercase(a.name), to_lowercase(b.name))

\* one step of a stable sort: x goes behind every element that is not greater
InsertSorted(sorted, x) ==
  LET after == {i \in 1..Len(sorted) : name_cmp(sorted[i], x) <= 0}
      k == IF after = {} THEN 0 ELSE Max(after)
  IN  SubSeq(sorted, 1, k) \o <<x>> \o SubSeq(sorted, k + 1, Len(sorted))

\* slice::sort_by (stable)
RECURSIVE SortFrom(_, _)
SortFrom(sorted, rest) ==
  IF rest = <<>> THEN sorted
  ELSE SortFrom(InsertSorted(sorted, Head(rest)), Tail(rest))

sort_by_name(files) == SortFrom(<<>>, files)

\* whether the loop body of get_video_files pushes this entry
Pushes(directory, e) ==
  /\ e.isFile
  /\ e.metaOk
  /\ is_supported_video(VideoFileNew(directory, e.name))

\* the loop of get_video_files over the entries read_dir yields: the files
\* pushed, or an error at the first entry that cannot be read
RECURSIVE ScanEntries(_, _, _)
ScanEntries(directory, entries, acc) ==
  IF entries = <<>> THEN [ok |-> TRUE, files |-> acc]
  ELSE IF ~Head(entries).iterOk THEN [ok |-> FALSE, files |-> <<>>]
  ELSE ScanEntries(directory, Tail(entries),
                   IF Pushes(directory, Head(entries))
                   THEN Append(acc, VideoFileNew(directory, Head(entries).name))
                   ELSE acc)

\* VideoConverter::get_video_files on a directory in state d
get_video_files(directory, d) ==
  IF d.kind # "dir" THEN [ok |-> TRUE, files |-> <<>>]
  ELSE IF ~d.readable THEN [ok |-> FALSE, files |-> <<>>]
  ELSE LET r == ScanEntries(directory, d.entries, <<>>)
       IN  IF r.ok THEN [ok |-> TRUE, files |-> sort_by_name(r.files)] ELSE r

\* VideoFile's Display, without the size
Display(vf) == vf.name

\* the lookup of select_video_file: the name of the first entry that renders
\* as the selection
LookupSelection(video_files, selection) ==
  LET hits == {i \in 1..Len(video_files) : Display(video_files[i]) = selection}
  IN  IF hits = {} THEN None ELSE Some(video_files[Min(hits)].name)

(***************************************************************************)
(* The environment: what a directory holds, what the user types, how the   *)
(* engine ends, which errors the operating system reports.                 *)
(***************************************************************************)
DirEntry(name, isFile, metaOk, iterOk) ==
  [name |-> name, isFile |-> isFile, metaOk |-> metaOk, iterOk |-> iterOk]

\* the directory entries of the model: isFile is what Path::is_file answers,
\* metaOk whether VideoFile::new can read the metadata, iterOk whether read_dir
\* yields the entry
EntryPool ==
  {DirEntry(<<"B", ".", "M", "P", "4">>, TRUE, TRUE, TRUE),
   DirEntry(<<"a", ".", "a", "v", "i">>, TRUE, TRUE, TRUE),
   DirEntry(<<"c", ".", "t", "x", "t">>, TRUE, TRUE, TRUE),
   DirEntry(<<"A", ".", "A", "V", "I">>, TRUE, TRUE, TRUE),
   DirEntry(<<"d", ".", "m", "k", "v">>, FALSE, TRUE, TRUE),
   DirEntry(<<"b", ".", "m", "p", "4">>, TRUE, FALSE, TRUE),
   DirEntry(<<".", "m", "p", "4">>, TRUE, TRUE, TRUE),
   DirEntry(<<"e", ".", "w", "e", "b", "m">>, TRUE, TRUE, FALSE)}

\* the listings read_dir can yield: up to MaxEntries entries of different names
Listings ==
  {l \in UNION {[1..n -> EntryPool] : n \in 0..MaxEntries} :
     \A i, j \in DOMAIN l : i # j => l[i].name # l[j].name}

NoDir == [kind |-> "absent", readable |-> FALSE, entries |-> <<>>]

DirStates ==
  {NoDir, [kind |-> "file", readable |-> FALSE, entries |-> <<>>],
   [kind |-> "dir", readable |-> FALSE, entries |-> <<>>]}
  \cup {[kind |-> "dir", readable |-> TRUE, entries |-> l] : l \in Listings}

\* Config::default
default_dir == <<"/", "v">>

\* what the user types at "Enter root directory path:"
DirAnswers == {<<"/", "w">>, <<"w", "/">>}

\* what the user types at "Enter video file path or URL:"
ManualInputs ==
  {<<"/", "v", "/", "a", ".", "m", "p", "4">>, <<"a", ".", "m", "p", "3">>, <<"h", "t", "t", "p", "s", ":", "/", "/", "h", "/", "p", "/", "c", ".", "m", "o", "v", "?", "x", "=", "1">>, <<"h", "t", "t", "p", "s", ":", "/", "/", "h">>, <<"f", "t", "p", ":", "/", "/", "h", "/", "y", ".", "m", "p", "4">>, <<"h", "t", "t", "p", ":", "/", "/">>, <<"H", "T", "T", "P", "S", ":", "/", "/", "h", "/", "a", ".", "m", "p", "3", "#", "f">>, <<>>, StrSlash, StrDotDot,
   <<" ", "h", "t", "t", "p", ":", "/", "/", "h", "/", "a", " ", "b", ".", "m", "p", "4">>,
   <<"h", "t", "t", "p", ":", "/", "/", "h", ":", "9", "9", "9", "9", "9", "/", "a", ".", "m", "p", "4">>,
   <<"h", "t", "t", "p", ":", "/", "/", "h", "BACKSLASH", "d", "/", ".", ".", "/", "a", ".", "m", "p", "3">>,
   <<"h", "t", "t", "p", ":", "/", "/", "x", "n", "-", "-", "p", "1", "a", "i", "/", "a", ".", "m", "p", "4">>,
   <<"h", "t", "t", "p", ":", "/", "/", "x", "n", "-", "-", "A", "-", "k", "v", "a", "/", "a", ".", "m", "p", "4">>}

\* std::process::ExitStatus
ExitCodes == {0, 1, 2}

Exited(c) == [signaled |-> FALSE, code |-> c]

Signaled == [signaled |-> TRUE, code |-> 0 - 1]

\* what the engine writes: a line on stderr, a line on stderr that is not
\* UTF-8, or a block on stdout
Writes == {"line", "badline", "out"}

Plans == UNION {[1..n -> Writes] : n \in 0..MaxWrites}

IoError(origin, cause, msg) == [origin |-> origin, cause |-> cause, msg |-> msg]

NoError == IoError("none", "none", <<>>)

\* the errors Command::spawn returns: the executable is on no directory of
\* PATH (ENOENT, and on Windows the text "program not found"), it is not
\* executable (EACCES), or it is found and its interpreter is missing (ENOENT)
LaunchErrors ==
  {IoError("launch", "ExecutableNotFound", <<"N", "o", " ", "s", "u", "c", "h", " ", "f", "i", "l", "e", " ", "o", "r", " ", "d", "i", "r", "e", "c", "t", "o", "r", "y", " ", "(", "o", "s", " ", "e", "r", "r", "o", "r", " ", "2", ")">>),
   IoError("launch", "ExecutableNotFound", <<"p", "r", "o", "g", "r", "a", "m", " ", "n", "o", "t", " ", "f", "o", "u", "n", "d">>),
   IoError("launch", "PermissionDenied", <<"P", "e", "r", "m", "i", "s", "s", "i", "o", "n", " ", "d", "e", "n", "i", "e", "d", " ", "(", "o", "s", " ", "e", "r", "r", "o", "r", " ", "1", "3", ")">>),
   IoError("launch", "InterpreterNotFound", <<"N", "o", " ", "s", "u", "c", "h", " ", "f", "i", "l", "e", " ", "o", "r", " ", "d", "i", "r", "e", "c", "t", "o", "r", "y", " ", "(", "o", "s", " ", "e", "r", "r", "o", "r", " ", "2", ")">>)}

\* the errors Child::wait returns
WaitErrors == {IoError("wait", "NoChild", <<"N", "o", " ", "c", "h", "i", "l", "d", " ", "p", "r", "o", "c", "e", "s", "s", "e", "s", " ", "(", "o", "s", " ", "e", "r", "r", "o", "r", " ", "1", "0", ")">>)}

(***************************************************************************)
(* The program state.                                                      *)
(***************************************************************************)
VARIABLES
  pc,               \* where the main flow (main and VideoConverter::run) stands
  proc,             \* the process: "running", "exited" or "killed" (by a signal)
  exitStatus,       \* the status the process exited with, -1 before
  exitedBy,         \* "main", "handler" or "none": whose exit ended the process
  handler,          \* the ctrl-c task: "spawned", "listening", "woken", "farewell"
  sigReceived,      \* an interrupt signal has reached the process
  failureReported,  \* a failure message has been printed
  root_dir,         \* run: root_dir
  answer,           \* ask_directory: the last custom_dir typed
  answerKind,       \* what the filesystem held at it: "dir", "file", "absent"
  attempts,         \* ask_directory: the answers its loop has rejected so far
                    \* (0 again once the loop is left)
  scanned,          \* the directory state get_video_files read
  scanResult,       \* "none", "ok" or "err": how get_video_files returned
  catalog,          \* run: video_files
  selected_file,    \* run: selected_file
  full_input_path,  \* run: full_input_path
  inputExists,      \* "unchecked", "yes" or "no": what input_path.exists() said
  output_path,      \* run: output_path
  launches,         \* how often Command::spawn was called
  engArgs,          \* <<input, output>> the running engine was started with
  eng,              \* the engine subprocess: "none", "running" or "exited"
  engPlan,          \* what the engine still writes before it exits
  engStatus,        \* the ExitStatus of the engine once it has exited
  errPipe,          \* the lines in the stderr pipe
  outPipe,          \* the blocks in the stdout pipe
  drain,            \* the drain task: "none", "running", "eof" or "failed"
  outcome,          \* the outcome reported for the engine invocation
  exitCodeSeen,     \* the exit code printed with "FFmpeg failed with exit code"
  lastErr           \* the error convert_to_mp3 returned

vars ==
  <<pc, proc, exitStatus, exitedBy, handler, sigReceived, failureReported,
    root_dir, answer, answerKind, attempts, scanned, scanResult, catalog, selected_file,
    full_input_path, inputExists, output_path, launches, engArgs, eng, engPlan,
    engStatus, errPipe, outPipe, drain, outcome, exitCodeSeen, lastErr>>

procVars == <<proc, exitStatus, exitedBy>>

handlerVars == <<handler, sigReceived>>

dirVars == <<root_dir, answer, answerKind, attempts>>

scanVars == <<scanned, scanResult, catalog>>

pathVars == <<selected_file, full_input_path, inputExists, output_path>>

engineVars == <<launches, engArgs, eng, engPlan, engStatus, errPipe, outPipe, drain>>

reportVars == <<outcome, exitCodeSeen, lastErr>>

Running == proc = "running"

Init ==
  /\ pc = "AskDefault"
  /\ proc = "running"
  /\ exitStatus = 0 - 1
  /\ exitedBy = "none"
  /\ handler = "spawned"
  /\ sigReceived = FALSE
  /\ failureReported = FALSE
  /\ root_dir = <<>>
  /\ answer = <<>>
  /\ answerKind = "none"
  /\ attempts = 0
  /\ scanned = NoDir
  /\ scanResult = "none"
  /\ catalog = <<>>
  /\ selected_file = <<>>
  /\ full_input_path = <<>>
  /\ inputExists = "unchecked"
  /\ output_path = <<>>
  /\ launches = 0
  /\ engArgs = <<>>
  /\ eng = "none"
  /\ engPlan = <<>>
  /\ engStatus = Exited(0)
  /\ errPipe = <<>>
  /\ outPipe = 0
  /\ drain = "none"
  /\ outcome = "None"
  /\ exitCodeSeen = 0 - 1
  /\ lastErr = NoError

(***************************************************************************)
(* ask_directory.                                                          *)
(***************************************************************************)
\* the `?` on a prompt: the error leaves run and reaches main
PromptFails ==
  /\ Running
  /\ pc \in {"AskDefault", "AskCustom", "SelectEmpty", "SelectMenu", "ManualEntry"}
  /\ pc' = "RunErr"
  /\ attempts' = 0
  /\ scanned' = NoDir /\ scanResult' = "none" /\ catalog' = <<>>
  /\ UNCHANGED <<procVars, handlerVars, failureReported, root_dir, answer, answerKind,
                 pathVars, engineVars, reportVars>>

\* "Use this as the root directory?" answered yes: the default is returned as
\* it is
AskDefaultYes ==
  /\ Running
  /\ pc = "AskDefault"
  /\ root_dir' = default_dir
  /\ pc' = "ListFiles"
  /\ UNCHANGED <<procVars, handlerVars, failureReported, answer, answerKind,
                 attempts, scanVars, pathVars, engineVars, reportVars>>

AskDefaultNo ==
  /\ Running
  /\ pc = "AskDefault"
  /\ pc' = "AskCustom"
  /\ UNCHANGED <<procVars, handlerVars, failureReported, dirVars, scanVars,
                 pathVars, engineVars, reportVars>>

\* a test that leaves out is_dir
DirAcceptedExists(kind) == kind # "absent"

\* path.exists() && path.is_dir() on what the filesystem holds at the path
DirAccepted(kind) == kind = "dir"

\* one round of the loop: the answer is returned when it is a directory, and
\* otherwise "Directory not found" is printed and the prompt comes again
AskCustom ==
  /\ Running
  /\ pc = "AskCustom"
  /\ \E custom_dir \in DirAnswers, kind \in {"dir", "file", "absent"} :
       /\ answer' = custom_dir
       /\ answerKind' = kind
       /\ IF DirAccepted(kind)
          THEN /\ root_dir' = custom_dir
               /\ pc' = "ListFiles"
               /\ attempts' = 0
          ELSE /\ attempts < MaxAttempts
               /\ attempts' = attempts + 1
               /\ UNCHANGED <<root_dir, pc>>
  /\ UNCHANGED <<procVars, handlerVars, failureReported, scanVars, pathVars,
                 engineVars, reportVars>>

(***************************************************************************)
(* get_video_files and select_video_file.                                  *)
(***************************************************************************)
\* where run goes when the catalog is returned
AfterScan(files) == IF files = <<>> THEN "SelectEmpty" ELSE "SelectMenu"

ListFiles ==
  /\ Running
  /\ pc = "ListFiles"
  /\ \E d \in DirStates :
       LET r == get_video_files(root_dir, d)
       IN  /\ scanned' = d
           /\ scanResult' = IF r.ok THEN "ok" ELSE "err"
           /\ catalog' = r.files
           /\ pc' = IF r.ok THEN AfterScan(r.files) ELSE "RunErr"
  /\ UNCHANGED <<procVars, handlerVars, failureReported, dirVars, pathVars,
                 engineVars, reportVars>>

\* the empty catalog: "Would you like to enter a file path or URL manually?"
SelectEmptyManual ==
  /\ Running
  /\ pc = "SelectEmpty"
  /\ pc' = "ManualEntry"
  /\ UNCHANGED <<procVars, handlerVars, failureReported, dirVars, scanVars,
                 pathVars, engineVars, reportVars>>

\* the empty catalog, manual entry declined: "Goodbye!" is printed and
\* std::process::exit(0) is what comes next
SelectEmptyDecline ==
  /\ Running
  /\ pc = "SelectEmpty"
  /\ pc' = "AbortExit"
  /\ UNCHANGED <<procVars, handlerVars, failureReported, dirVars, scanVars,
                 pathVars, engineVars, reportVars>>

\* the menu: the manual entry is chosen
SelectMenuManual ==
  /\ Running
  /\ pc = "SelectMenu"
  /\ pc' = "ManualEntry"
  /\ UNCHANGED <<procVars, handlerVars, failureReported, dirVars, scanVars,
                 pathVars, engineVars, reportVars>>

\* the menu: a file of the catalog is chosen, and found again by its display
\* text.  The catalog is not read after the selection.
SelectMenuFile ==
  /\ Running
  /\ pc = "SelectMenu"
  /\ \E i \in 1..Len(catalog) :
       LET found == LookupSelection(catalog, Display(catalog[i]))
       IN  IF found.some
           THEN /\ selected_file' = found.val
                /\ pc' = "ResolvePaths"
           ELSE /\ selected_file' = selected_file
                /\ pc' = "RunErr"
  /\ scanned' = NoDir /\ scanResult' = "none" /\ catalog' = <<>>
  /\ UNCHANGED <<procVars, handlerVars, failureReported, dirVars, full_input_path,
                 inputExists, output_path, engineVars, reportVars>>

\* "Enter video file path or URL:"
ManualEntry ==
  /\ Running
  /\ pc = "ManualEntry"
  /\ \E manual_path \in ManualInputs : selected_file' = manual_path
  /\ pc' = "ResolvePaths"
  /\ scanned' = NoDir /\ scanResult' = "none" /\ catalog' = <<>>
  /\ UNCHANGED <<procVars, handlerVars, failureReported, dirVars, full_input_path,
                 inputExists, output_path, engineVars, reportVars>>

(***************************************************************************)
(* run: the input path, the existence check, the output path.              *)
(***************************************************************************)
\* the full input path of run
resolve_full_input_path(selected, root) ==
  IF is_url(selected) \/ is_absolute(selected) THEN selected ELSE join(root, selected)

\* a run that goes on without the input
InputMissingGoesOn == "Transcode"

\* where run goes when the local input does not exist: "File not found", and
\* Ok(()) is returned
InputMissingNext == "ReturnOk"

\* run, from the resolved input on: a local input that does not exist ends
\* the run, every other input gets its output path
CheckInput(full, remote) ==
  /\ full_input_path' = full
  /\ \/ /\ remote
        /\ inputExists' = "unchecked"
        /\ output_path' = get_output_path(full)
        /\ pc' = "Transcode"
     \/ /\ ~remote
        /\ inputExists' = "yes"
        /\ output_path' = get_output_path(full)
        /\ pc' = "Transcode"
     \/ /\ ~remote
        /\ inputExists' = "no"
        /\ output_path' = output_path
        /\ pc' = InputMissingNext

\* run, from the resolved input on
ResolveTo(full) == CheckInput(full, is_url(full))

ResolvePaths ==
  /\ Running
  /\ pc = "ResolvePaths"
  /\ ResolveTo(resolve_full_input_path(selected_file, root_dir))
  /\ UNCHANGED <<procVars, handlerVars, failureReported, dirVars, scanVars,
                 selected_file, engineVars, reportVars>>

(***************************************************************************)
(* convert_to_mp3: the engine subprocess, its pipes, the drain task.       *)
(***************************************************************************)
\* Command::spawn fails: the `?` returns the error to run
SpawnFails ==
  /\ Running
  /\ pc = "Transcode"
  /\ launches' = launches + 1
  /\ \E e \in LaunchErrors : lastErr' = e
  /\ pc' = "ConvertErr"
  /\ UNCHANGED <<procVars, handlerVars, failureReported, dirVars, scanVars, pathVars,
                 engArgs, eng, engPlan, engStatus, errPipe, outPipe, drain, outcome,
                 exitCodeSeen>>

\* Command::spawn succeeds with stdout and stderr piped; stderr is handed to
\* the drain task, stdout stays with the Child
Spawn ==
  /\ Running
  /\ pc = "Transcode"
  /\ launches' = launches + 1
  /\ engArgs' = <<full_input_path, output_path>>
  /\ eng' = "running"
  /\ \E plan \in Plans : engPlan' = plan
  /\ drain' = "running"
  /\ pc' = "Wait"
  /\ UNCHANGED <<procVars, handlerVars, failureReported, dirVars, scanVars, pathVars,
                 engStatus, errPipe, outPipe, reportVars>>

\* the engine writes a line to stderr: the write blocks while the pipe is full
EngineWriteErr ==
  /\ Running
  /\ eng = "running"
  /\ engPlan # <<>>
  /\ Head(engPlan) \in {"line", "badline"}
  /\ drain = "running"
  /\ Len(errPipe) < PipeCap
  /\ errPipe' = Append(errPipe, Head(engPlan))
  /\ engPlan' = Tail(engPlan)
  /\ UNCHANGED <<pc, procVars, handlerVars, failureReported, dirVars, scanVars,
                 pathVars, launches, engArgs, eng, engStatus, outPipe, drain,
                 reportVars>>

\* the engine writes to stderr after the reader was dropped: the write fails
\* (EPIPE), and the engine goes on or dies of SIGPIPE
EngineWriteClosed ==
  /\ Running
  /\ eng = "running"
  /\ engPlan # <<>>
  /\ Head(engPlan) \in {"line", "badline"}
  /\ drain = "failed"
  /\ \/ /\ engPlan' = Tail(engPlan)
        /\ UNCHANGED <<eng, engStatus>>
     \/ /\ engPlan' = <<>>
        /\ eng' = "exited"
        /\ engStatus' = Signaled
  /\ UNCHANGED <<pc, procVars, handlerVars, failureReported, dirVars, scanVars,
                 pathVars, launches, engArgs, errPipe, outPipe, drain, reportVars>>

\* the engine writes a block to stdout: the write blocks while the pipe is
\* full, and nothing in the program reads that pipe
EngineWriteOut ==
  /\ Running
  /\ eng = "running"
  /\ engPlan # <<>>
  /\ Head(engPlan) = "out"
  /\ outPipe < PipeCap
  /\ outPipe' = outPipe + 1
  /\ engPlan' = Tail(engPlan)
  /\ UNCHANGED <<pc, procVars, handlerVars, failureReported, dirVars, scanVars,
                 pathVars, launches, engArgs, eng, engStatus, errPipe, drain,
                 reportVars>>

\* the engine has written everything and ends, with an exit code or by a signal
EngineExit ==
  /\ Running
  /\ eng = "running"
  /\ engPlan = <<>>
  /\ eng' = "exited"
  /\ \E st \in {Exited(c) : c \in ExitCodes} \cup {Signaled} : engStatus' = st
  /\ UNCHANGED <<pc, procVars, handlerVars, failureReported, dirVars, scanVars,
                 pathVars, launches, engArgs, engPlan, errPipe, outPipe, drain,
                 reportVars>>

\* what the loop `while let Ok(Some(_line)) = lines.next_line().await` does
\* with the next line: it goes on after a line, and ends when next_line
\* returns an error, which it does for a line that is not UTF-8
DrainAfter(line) == IF line = "line" THEN "running" ELSE "failed"

\* the drain task takes the next line; when its loop ends the reader is
\* dropped, which closes the pipe
DrainRead ==
  /\ Running
  /\ drain = "running"
  /\ errPipe # <<>>
  /\ drain' = DrainAfter(Head(errPipe))
  /\ errPipe' = IF DrainAfter(Head(errPipe)) = "running" THEN Tail(errPipe) ELSE <<>>
  /\ UNCHANGED <<pc, procVars, handlerVars, failureReported, dirVars, scanVars,
                 pathVars, launches, engArgs, eng, engPlan, engStatus, outPipe,
                 reportVars>>

\* the drain task reads the end of the stream: Ok(None)
DrainEof ==
  /\ Running
  /\ drain = "running"
  /\ errPipe = <<>>
  /\ eng = "exited"
  /\ drain' = "eof"
  /\ UNCHANGED <<pc, procVars, handlerVars, failureReported, dirVars, scanVars,
                 pathVars, launches, engArgs, eng, engPlan, engStatus, errPipe,
                 outPipe, reportVars>>

\* ExitStatus::success
success(st) == ~st.signaled /\ st.code = 0

\* ExitStatus::code
code(st) == IF st.signaled THEN None ELSE Some(st.code)

\* the outcome convert_to_mp3 prints for an exit status
StatusOutcome(st) ==
  IF success(st) THEN "Succeeded"
  ELSE IF code(st).some THEN "FailedWithExitCode"
  ELSE "FailedBySignal"

\* cmd.wait() returns the status of the engine: the message is printed and
\* Ok(true) or Ok(false) returned
WaitStatus ==
  /\ Running
  /\ pc = "Wait"
  /\ eng = "exited"
  /\ outcome' = StatusOutcome(engStatus)
  /\ exitCodeSeen' = IF StatusOutcome(engStatus) = "FailedWithExitCode"
                     THEN code(engStatus).val ELSE exitCodeSeen
  /\ failureReported' = (failureReported \/ ~success(engStatus))
  /\ pc' = IF success(engStatus) THEN "ReportOk" ELSE "ReportFailed"
  /\ UNCHANGED <<procVars, handlerVars, dirVars, scanVars, pathVars, engineVars,
                 lastErr>>

\* cmd.wait() returns an error: the `?` returns it to run
WaitFails ==
  /\ Running
  /\ pc = "Wait"
  /\ \E e \in WaitErrors : lastErr' = e
  /\ pc' = "ConvertErr"
  /\ UNCHANGED <<procVars, handlerVars, failureReported, dirVars, scanVars, pathVars,
                 engineVars, outcome, exitCodeSeen>>

(***************************************************************************)
(* run: the report; main: the fatal error and the exit.                    *)
(***************************************************************************)
\* Ok(true): "Conversion finished" and the size of the output
ReportOk ==
  /\ Running
  /\ pc = "ReportOk"
  /\ pc' = "ReturnOk"
  /\ UNCHANGED <<procVars, handlerVars, failureReported, dirVars, scanVars, pathVars,
                 engineVars, reportVars>>

\* a run that tries the conversion again
AfterFailureRetry == "Transcode"

\* where run goes once a failure of the conversion is printed:
\* std::process::exit(1)
AfterFailure == "Exit1"

\* Ok(false): "Conversion failed!"
ReportFailed ==
  /\ Running
  /\ pc = "ReportFailed"
  /\ failureReported' = TRUE
  /\ pc' = AfterFailure
  /\ UNCHANGED <<procVars, handlerVars, dirVars, scanVars, pathVars, engineVars,
                 reportVars>>

\* the test of run on the text of the error
ErrorOutcome(e) ==
  IF Contains(e.msg, <<"N", "o", " ", "s", "u", "c", "h", " ", "f", "i", "l", "e", " ", "o", "r", " ", "d", "i", "r", "e", "c", "t", "o", "r", "y">>) \/ Contains(e.msg, <<"p", "r", "o", "g", "r", "a", "m", " ", "n", "o", "t", " ", "f", "o", "u", "n", "d">>)
  THEN "EngineNotFound"
  ELSE "OtherError"

\* Err(e): "FFmpeg not found" or "Error during conversion"
ReportErr ==
  /\ Running
  /\ pc = "ConvertErr"
  /\ outcome' = ErrorOutcome(lastErr)
  /\ failureReported' = TRUE
  /\ pc' = AfterFailure
  /\ UNCHANGED <<procVars, handlerVars, dirVars, scanVars, pathVars, engineVars,
                 exitCodeSeen, lastErr>>

\* main: run returned an error, "Fatal error" is printed
MainFatal ==
  /\ Running
  /\ pc = "RunErr"
  /\ failureReported' = TRUE
  /\ pc' = "Exit1"
  /\ UNCHANGED <<procVars, handlerVars, dirVars, scanVars, pathVars, engineVars,
                 reportVars>>

\* a main flow that always exits with 0
ExitStatusAlwaysZero(at) == 0

\* the status the main flow exits with: std::process::exit(1) after a failure;
\* 0 from std::process::exit(0) in select_video_file and from main returning
ExitStatusFor(at) == IF at = "Exit1" THEN 1 ELSE 0

\* the main flow ends the process
MainExit ==
  /\ Running
  /\ pc \in {"Exit1", "ReturnOk", "AbortExit"}
  /\ proc' = "exited"
  /\ exitStatus' = ExitStatusFor(pc)
  /\ exitedBy' = "main"
  /\ UNCHANGED <<pc, handlerVars, failureReported, dirVars, scanVars, pathVars,
                 engineVars, reportVars>>

(***************************************************************************)
(* main: the ctrl-c task, which runs beside the main flow.                 *)
(***************************************************************************)
\* the task is polled for the first time: ctrl_c() installs the handler
HandlerRegister ==
  /\ Running
  /\ handler = "spawned"
  /\ handler' = "listening"
  /\ UNCHANGED <<pc, procVars, sigReceived, failureReported, dirVars, scanVars,
                 pathVars, engineVars, reportVars>>

\* an interrupt signal reaches the process: it wakes the task when the handler
\* is installed, and kills the process when it is not yet
Interrupt ==
  /\ Running
  /\ ~sigReceived
  /\ sigReceived' = TRUE
  /\ IF handler = "spawned"
     THEN /\ proc' = "killed"
          /\ UNCHANGED <<handler, exitStatus, exitedBy>>
     ELSE /\ handler' = "woken"
          /\ UNCHANGED procVars
  /\ UNCHANGED <<pc, failureReported, dirVars, scanVars, pathVars, engineVars,
                 reportVars>>

\* the task prints "Goodbye!"
HandlerFarewell ==
  /\ Running
  /\ handler = "woken"
  /\ handler' = "farewell"
  /\ UNCHANGED <<pc, procVars, sigReceived, failureReported, dirVars, scanVars,
                 pathVars, engineVars, reportVars>>

\* the task calls std::process::exit(0)
HandlerExit ==
  /\ Running
  /\ handler = "farewell"
  /\ proc' = "exited"
  /\ exitStatus' = 0
  /\ exitedBy' = "handler"
  /\ UNCHANGED <<pc, handlerVars, failureReported, dirVars, scanVars, pathVars,
                 engineVars, reportVars>>

Next ==
  \/ PromptFails
  \/ AskDefaultYes
  \/ AskDefaultNo
  \/ AskCustom
  \/ ListFiles
  \/ SelectEmptyManual
  \/ SelectEmptyDecline
  \/ SelectMenuManual
  \/ SelectMenuFile
  \/ ManualEntry
  \/ ResolvePaths
  \/ SpawnFails
  \/ Spawn
  \/ EngineWriteErr
  \/ EngineWriteClosed
  \/ EngineWriteOut
  \/ EngineExit
  \/ DrainRead
  \/ DrainEof
  \/ WaitStatus
  \/ WaitFails
  \/ ReportOk
  \/ ReportFailed
  \/ ReportErr
  \/ MainFatal
  \/ MainExit
  \/ HandlerRegister
  \/ Interrupt
  \/ HandlerFarewell
  \/ HandlerExit

Spec == Init /\ [][Next]_vars

\* the engine, the drain task and the main flow past the prompts are scheduled
\* whenever they can take a step; the user, the interrupt and the errors of
\* wait are not
Fairness ==
  /\ WF_vars(EngineWriteErr)
  /\ WF_vars(EngineWriteClosed)
  /\ WF_vars(EngineWriteOut)
  /\ WF_vars(EngineExit)
  /\ WF_vars(DrainRead)
  /\ WF_vars(DrainEof)
  /\ WF_vars(WaitStatus)
  /\ WF_vars(ReportOk)
  /\ WF_vars(ReportFailed)
  /\ WF_vars(ReportErr)
  /\ WF_vars(MainExit)

FairSpec == Spec /\ Fairness

(***************************************************************************)
(* The phases of the session.                                              *)
(***************************************************************************)
Phase ==
  IF proc # "running" THEN "Terminal"
  ELSE IF pc \in {"AskDefault", "AskCustom"} THEN "AskDirectory"
  ELSE IF pc = "ListFiles" THEN "ListFiles"
  ELSE IF pc \in {"SelectEmpty", "SelectMenu", "ManualEntry"} THEN "SelectFile"
  ELSE IF pc = "ResolvePaths" THEN "ResolvePaths"
  ELSE IF pc \in {"Transcode", "Wait"} THEN "Transcode"
  ELSE IF pc \in {"ReportOk", "ReportFailed", "ConvertErr"} THEN "ReportOutcome"
  ELSE "Terminal"

PhaseOrder ==
  <<"AskDirectory", "ListFiles", "SelectFile", "ResolvePaths", "Transcode",
    "ReportOutcome", "Terminal">>

Rank(ph) == CHOOSE i \in 1..Len(PhaseOrder) : PhaseOrder[i] = ph

FailureOutcomes == {"FailedWithExitCode", "FailedBySignal", "EngineNotFound", "OtherError"}

(***************************************************************************)
(* C1.                                                                     *)
(***************************************************************************)
\* C1 as stated: a run that exits does so with status 0 or 1, and the status
\* is 1 exactly when a failure was reported.
C1_StatusIffFailure ==
  proc = "exited" =>
    /\ exitStatus \in {0, 1}
    /\ (exitStatus = 1 <=> failureReported)

\* C1 amended: a run that exits does so with status 0 or 1; when the main flow
\* ends the process the status is 1 exactly when a failure was reported (in
\* particular after an engine exit code, a signal, a launch or wait error) and
\* 0 after a success, a declined manual entry or a missing input; when the
\* ctrl-c task ends the process the status is 0, whatever was reported.
C1_ExitStatus ==
  proc = "exited" =>
    /\ exitStatus \in {0, 1}
    /\ exitedBy = "handler" => exitStatus = 0
    /\ exitedBy = "main" =>
         /\ exitStatus = 1 <=> failureReported
         /\ outcome \in FailureOutcomes => exitStatus = 1
         /\ lastErr # NoError => exitStatus = 1
         /\ outcome = "Succeeded" => exitStatus = 0
         /\ (pc = "AbortExit" \/ inputExists = "no") => exitStatus = 0

\* the engine exited with code 1 and the main flow ended the process with 1
C1_Witness ==
  /\ proc = "exited"
  /\ exitedBy = "main"
  /\ outcome = "FailedWithExitCode"
  /\ exitCodeSeen = 1
  /\ exitStatus = 1

(***************************************************************************)
(* C2.                                                                     *)
(***************************************************************************)
\* C2: the phases follow one another in the order AskDirectory, ListFiles,
\* SelectFile, ResolvePaths, Transcode, ReportOutcome, Terminal: a step that
\* changes the phase enters the next one or Terminal.  The engine is launched
\* only for a remote input or a local one seen to exist; after a declined
\* manual entry or a missing input the session is terminal, the engine was
\* never launched, and the exit status is 0.
C2_PhaseOrder ==
  /\ [][Phase' # Phase =>
          (Phase' = "Terminal" \/ Rank(Phase') = Rank(Phase) + 1)]_vars
  /\ []((Phase \in {"Transcode", "ReportOutcome"} \/ launches > 0) =>
          (is_url(full_input_path) \/ inputExists = "yes"))
  /\ []((pc = "AbortExit" \/ inputExists = "no") =>
          /\ Phase = "Terminal"
          /\ launches = 0
          /\ eng = "none"
          /\ proc = "exited" => exitStatus = 0)

\* the input was missing and the main flow ended the run without a launch
C2_Witness ==
  /\ proc = "exited"
  /\ exitedBy = "main"
  /\ inputExists = "no"
  /\ pc = "ReturnOk"
  /\ launches = 0

(***************************************************************************)
(* C3.                                                                     *)
(***************************************************************************)
\* C3: while the engine runs the drain task runs and reads its stderr until
\* the end of the stream, and the wait for the engine returns in the end (or
\* the process is ended before).
C3_DrainUntilEof ==
  /\ []((Running /\ eng = "running") => drain = "running")
  /\ (pc = "Wait") ~> (pc # "Wait" \/ ~Running)

(***************************************************************************)
(* C4.                                                                     *)
(***************************************************************************)
\* C4: once an interrupt signal has reached the process the main flow takes no
\* further step and reports nothing, and the process ends by the exit of the
\* ctrl-c task, after its farewell, with status 0.
C4_InterruptEndsRun ==
  /\ [][sigReceived =>
          /\ pc' = pc
          /\ failureReported' = failureReported
          /\ outcome' = outcome
          /\ launches' = launches]_vars
  /\ []((sigReceived /\ ~Running) =>
          /\ proc = "exited"
          /\ exitedBy = "handler"
          /\ handler = "farewell"
          /\ exitStatus = 0)

(***************************************************************************)
(* C5.                                                                     *)
(***************************************************************************)
\* C5: Command::spawn is called at most once in a run, and once the attempt
\* has failed the failure is reported and the session is past the Transcode
\* phase for good.
C5_SingleLaunch ==
  /\ launches <= 1
  /\ (outcome \in FailureOutcomes \/ lastErr # NoError) =>
       /\ launches = 1
       /\ Phase \in {"ReportOutcome", "Terminal"}
  /\ (outcome \in FailureOutcomes /\ Running) => failureReported

\* the engine was killed by a signal, which was reported, and the run is about
\* to exit after its one launch
C5_Witness ==
  /\ launches = 1
  /\ outcome = "FailedBySignal"
  /\ failureReported
  /\ pc = "Exit1"

(***************************************************************************)
(* C6.                                                                     *)
(***************************************************************************)
\* C6: the outcome reported is Succeeded exactly for exit code 0,
\* FailedWithExitCode(c) exactly for exit code c # 0, FailedBySignal exactly
\* for an end without exit code, EngineNotFound exactly for a launch that
\* failed because the executable could not be located, and OtherError exactly
\* for every other launch error and every wait error.
C6_Classification ==
  outcome # "None" =>
    LET missing == lastErr.origin = "launch" /\ lastErr.cause = "ExecutableNotFound"
        waited == lastErr = NoError /\ eng = "exited"
    IN  /\ outcome = "Succeeded" <=> (waited /\ ~engStatus.signaled /\ engStatus.code = 0)
        /\ outcome = "FailedWithExitCode" <=>
             (waited /\ ~engStatus.signaled /\ engStatus.code # 0)
        /\ outcome = "FailedWithExitCode" => exitCodeSeen = engStatus.code
        /\ outcome = "FailedBySignal" <=> (waited /\ engStatus.signaled)
        /\ outcome = "EngineNotFound" <=> missing
        /\ outcome = "OtherError" <=> (lastErr # NoError /\ ~missing)

(***************************************************************************)
(* C7.                                                                     *)
(***************************************************************************)
\* C7: in the loop of ask_directory an answer that is not a directory is
\* rejected: the session stays at the prompt and nothing but the count of
\* attempts changes; the loop is left for ListFiles only with the answer just
\* typed, seen to be a directory; and it is left for nothing but ListFiles or
\* the error of the prompt.
C7_DirectoryLoop ==
  [][(pc = "AskCustom" /\ Running') =>
       /\ pc' \in {"AskCustom", "ListFiles", "RunErr"}
       /\ pc' = "ListFiles" => (answerKind' = "dir" /\ root_dir' = answer')
       /\ (pc' = "AskCustom" /\ attempts' # attempts) =>
            /\ answerKind' # "dir"
            /\ attempts' = attempts + 1
            /\ UNCHANGED <<root_dir, procVars, handlerVars, failureReported, scanVars,
                           pathVars, engineVars, reportVars>>]_vars

\* an existing path that is no directory was rejected, after another rejected
\* answer, and the session still asks
C7_Witness ==
  /\ pc = "AskCustom"
  /\ attempts >= 2
  /\ answerKind = "file"
  /\ root_dir = <<>>

(***************************************************************************)
(* C8.                                                                     *)
(***************************************************************************)
\* the text behind the last "." of a file name, when a "." stands behind the
\* first character
ExtText(name) ==
  LET dots == Positions(name, ".") \ {1}
  IN  IF dots = {} THEN <<>> ELSE SubSeq(name, Max(dots) + 1, Len(name))

\* the entries of a listing that belong in the catalog
Kept(entries) ==
  {i \in 1..Len(entries) :
     /\ entries[i].isFile
     /\ entries[i].metaOk
     /\ to_lowercase(ExtText(entries[i].name)) \in
          {<<"m", "p", "4">>, <<"a", "v", "i">>, <<"m", "o", "v">>, <<"m", "k", "v">>, <<"f", "l", "v">>, <<"w", "m", "v">>, <<"w", "e", "b", "m">>, <<"m", "4", "v">>, <<"3", "g", "p">>}}

\* C8: the catalog of a directory holds the regular files of its listing with
\* a supported extension (case folded) and readable metadata, each once, by
\* ascending folded name, equal folded names in the order of the listing; what
\* is no directory gives the empty catalog and no error; an error comes only
\* from a directory that cannot be read or an entry that cannot be read.
C8_Catalog ==
  /\ scanResult = "err" =>
       /\ scanned.kind = "dir"
       /\ ~scanned.readable \/ \E i \in 1..Len(scanned.entries) : ~scanned.entries[i].iterOk
  /\ (scanResult = "ok" /\ scanned.kind # "dir") => catalog = <<>>
  /\ (scanResult = "ok" /\ scanned.kind = "dir") =>
       /\ scanned.readable
       /\ \A i \in 1..Len(scanned.entries) : scanned.entries[i].iterOk
       /\ \E f \in [1..Len(catalog) -> 1..Len(scanned.entries)] :
            /\ \A j, k \in 1..Len(catalog) : j # k => f[j] # f[k]
            /\ {f[j] : j \in 1..Len(catalog)} = Kept(scanned.entries)
            /\ \A j \in 1..Len(catalog) : catalog[j].name = scanned.entries[f[j]].name
            /\ \A j, k \in 1..Len(catalog) :
                 j < k =>
                   LET c == StrCmp(to_lowercase(catalog[j].name),
                                   to_lowercase(catalog[k].name))
                   IN  c < 0 \/ (c = 0 /\ f[j] < f[k])

\* the listing B.<<"m", "p", "4">>, a.avi, c.txt gave the catalog a.avi, B.<<"m", "p", "4">>
C8_Witness ==
  /\ scanResult = "ok"
  /\ [i \in 1..Len(scanned.entries) |-> scanned.entries[i].name] = <<<<"B", ".", "M", "P", "4">>, <<"a", ".", "a", "v", "i">>, <<"c", ".", "t", "x", "t">>>>
  /\ [i \in 1..Len(catalog) |-> catalog[i].name] = <<<<"a", ".", "a", "v", "i">>, <<"B", ".", "M", "P", "4">>>>

(***************************************************************************)
(* C9.                                                                     *)
(***************************************************************************)
\* the runs of s between two "/" (or an end of s), as <<first, last>>
Pieces(s) ==
  {ij \in (1..Len(s)) \X (1..Len(s)) :
     /\ ij[1] <= ij[2]
     /\ \A n \in ij[1]..ij[2] : s[n] # "/"
     /\ ij[1] = 1 \/ s[ij[1] - 1] = "/"
     /\ ij[2] = Len(s) \/ s[ij[2] + 1] = "/"}

\* the pieces that are components of the path: every piece but a "." behind
\* the first place
NamePieces(s) ==
  {ij \in Pieces(s) : ~(SubSeq(s, ij[1], ij[2]) = StrDot /\ (ij[1] > 1 \/ s[1] = "/"))}

\* the last component of the path, as <<first, last>>
LastPiece(s) == CHOOSE ij \in NamePieces(s) : \A o \in NamePieces(s) : o[2] <= ij[2]

\* the stem of a file name: the name without its last "." and what follows,
\* when that "." is not the first character
StemText(name) ==
  LET dots == Positions(name, ".") \ {1}
  IN  IF dots = {} THEN name ELSE SubSeq(name, 1, Max(dots) - 1)

\* the stem of the path, "output" when the path ends in no file name
ExpectedStem(s) ==
  IF NamePieces(s) = {} THEN StrOutput
  ELSE LET last == SubSeq(s, LastPiece(s)[1], LastPiece(s)[2])
       IN  IF last \in {StrDot, StrDotDot} THEN StrOutput ELSE StemText(last)

\* the text of s before position n, without the separators at its end (a lone
\* "/" is kept)
DirText(s, n) ==
  LET ends == {m \in 0..(n - 1) : m = 0 \/ s[m] # "/"}
      m == Max(ends)
  IN  IF m = 0 /\ n > 1 THEN StrSlash ELSE SubSeq(s, 1, m)

\* C9: the output path is the one the input string determines: for a remote
\* input (http or https) the stem of the path component of the URI with
\* ".mp3" and no directory; for a local input the stem with ".mp3", inside the
\* parent directory when the input has a parent with a name, bare otherwise;
\* the stem is "output" when none can be taken.  It is stated where run has
\* just derived the path; neither path changes afterwards.
C9_OutputPath ==
  (pc = "Transcode" /\ output_path # <<>>) =>
    LET inp == full_input_path
        remote == is_url(inp)
        stem == ExpectedStem(IF remote THEN UrlParse(inp).path ELSE inp)
        dir == IF remote \/ NamePieces(inp) = {} THEN <<>>
               ELSE DirText(inp, LastPiece(inp)[1])
    IN  /\ output_path = (IF dir = <<>> THEN <<>>
                          ELSE IF dir = StrSlash THEN dir
                          ELSE dir \o StrSlash) \o stem \o StrDotMp3
        /\ remote => Positions(output_path, "/") = {}
        /\ inp = <<"h", "t", "t", "p", "s", ":", "/", "/", "h", "/", "p", "/", "c", ".", "m", "o", "v", "?", "x", "=", "1">> => output_path = <<"c", ".", "m", "p", "3">>
        /\ inp = <<"/", "v", "/", "a", ".", "m", "p", "4">> => output_path = <<"/", "v", "/", "a", ".", "m", "p", "3">>
        /\ inp = <<"h", "t", "t", "p", "s", ":", "/", "/", "h">> => output_path = <<"o", "u", "t", "p", "u", "t", ".", "m", "p", "3">>
        /\ inp = <<" ", "h", "t", "t", "p", ":", "/", "/", "h", "/", "a", " ", "b", ".", "m", "p", "4">> => output_path = <<"a", "%", "2", "0", "b", ".", "m", "p", "3">>
        /\ inp = <<"h", "t", "t", "p", ":", "/", "/", "h", "BACKSLASH", "d", "/", ".", ".", "/", "a", ".", "m", "p", "3">> => output_path = <<"a", ".", "m", "p", "3">>
        /\ inp = <<"h", "t", "t", "p", ":", "/", "/", "x", "n", "-", "-", "p", "1", "a", "i", "/", "a", ".", "m", "p", "4">> => output_path = <<"a", ".", "m", "p", "3">>
        /\ inp = <<"h", "t", "t", "p", ":", "/", "/", "x", "n", "-", "-", "A", "-", "k", "v", "a", "/", "a", ".", "m", "p", "4">> => output_path = <<"a", ".", "m", "p", "3">>

\* the output path of https://h/p/c.mov?x=1 is c.mp3
C9_Witness ==
  /\ full_input_path = <<"h", "t", "t", "p", "s", ":", "/", "/", "h", "/", "p", "/", "c", ".", "m", "o", "v", "?", "x", "=", "1">>
  /\ output_path = <<"c", ".", "m", "p", "3">>
  /\ pc = "Transcode"

(***************************************************************************)
(* C10.                                                                    *)
(***************************************************************************)
\* C10: the output path handed to the engine differs from the input handed to
\* it.
C10_OutputDiffers == engArgs # <<>> => engArgs[1] # engArgs[2]

====
